---- MODULE Spec2Model ----
(***************************************************************************)
(* Model of mathblockblast_with_menu.py: the 7x7 exact-sum board, the      *)
(* shape catalog, Piece construction, the adaptive piece generator, the    *)
(* line-clearing evaluation with its deferred (animated) reset, and the    *)
(* Menu / Playing / Paused / GameOver control flow of main().              *)
(*                                                                         *)
(* Indexing follows the source: board cells are grid[y][x] with x, y in    *)
(* 0..GRID_SIZE-1, piece slots are 0..2.  Shape matrices are sequences of  *)
(* rows, so the source's shape[dy][dx] is shape[dy+1][dx+1] here.          *)
(* Time (perf_counter) is counted in hundredths of a second.               *)
(***************************************************************************)
EXTENDS Integers, Sequences, FiniteSets, TLC

VARIABLES
    menu_active,            \* Menu.active
    game,                   \* "None" or "Game": main()'s local `game`
    grid,                   \* BlockBlastGame.grid        [y][x] -> 0/1
    grid_nums,              \* BlockBlastGame.grid_nums   [y][x] -> 0..5
    grid_colors,            \* BlockBlastGame.grid_colors [y][x] -> None / color
    pieces,                 \* BlockBlastGame.pieces, slots 0..2
    selected,               \* BlockBlastGame.selected (None or slot)
    dragging,               \* BlockBlastGame.dragging
    score,                  \* BlockBlastGame.score
    best,                   \* BlockBlastGame.best
    best_file,              \* contents of BEST_FILE
    game_over,              \* BlockBlastGame.game_over
    paused,                 \* BlockBlastGame.paused
    timed_mode,             \* BlockBlastGame.timed_mode
    start_time,             \* BlockBlastGame.start_time
    last_piece_time,        \* BlockBlastGame.last_piece_time
    consecutive_single_5s,  \* BlockBlastGame.consecutive_single_5s
    animations,             \* BlockBlastGame.animations
    now,                    \* perf_counter()
    moves,                  \* placements made so far; a fresh board is not played on
    play_time,              \* history: time this game has spent running, neither
                            \*   paused nor over, since its timer was started
    single5_run,            \* history: how many of the pieces dealt last, in the
                            \*   order they were dealt, are single cells of value 5
    cells_reset,            \* history: cells update_animations has reset to empty
                            \*   since the game was started or restarted
    fresh_cells,            \* history: cells a placement has written that no
                            \*   clear-set recorded since then contains
    ev                      \* the event handled by the last step

vars == <<menu_active, game, grid, grid_nums, grid_colors, pieces, selected,
          dragging, score, best, best_file, game_over, paused, timed_mode,
          start_time, last_piece_time, consecutive_single_5s, animations,
          now, moves, play_time, single5_run, cells_reset,
          fresh_cells, ev>>

----------------------------------------------------------------------------
(* Program constants *)

GRID_SIZE == 7
TARGET_SUM == 25
POINTS_PER_CELL == 15
TIMER_SECONDS == 180
CLEAR_ANIM == 45
SINGLE5_RESET == 500
NUM_BLOCK_COLORS == 8
Tries == 150
STRATEGIC_MAX_EMPTY == 3

(* Bounds of the exploration *)

MaxShapeDraw == 2
MaxFillDraw == 1
MaxColorDraw == 1
TimeStep == 18001
MaxTicks == 1
MaxMoves == 2
MaxFallbackDraw == 5
ShortStep == 30
MaxShortTicks == 3

None == 0
NoSelection == -1
Idx == 0..(GRID_SIZE - 1)
Cells == Idx \X Idx

----------------------------------------------------------------------------
(* Shape catalog *)

SHAPES == <<
    << <<1>> >>,
    << <<1,1>> >>,
    << <<1>>, <<1>> >>,
    << <<1,1,1>> >>,
    << <<1>>, <<1>>, <<1>> >>,
    << <<1,1>>, <<1,1>> >>,
    << <<1,1,1>>, <<0,1,0>> >>,
    << <<1,1>>, <<1,0>> >>,
    << <<1,1>>, <<0,1>> >>,
    << <<1,0>>, <<1,0>>, <<1,1>> >>,
    << <<0,1>>, <<0,1>>, <<1,1>> >>,
    << <<1,0,1>>, <<1,1,1>> >>,
    << <<1,1,1,1>> >>,
    << <<1>>, <<1,1>>, <<1>> >>
>>

ShapeIds == 1..Len(SHAPES)

RECURSIVE SumSeq(_)
SumSeq(s) == IF s = <<>> THEN 0 ELSE Head(s) + SumSeq(Tail(s))

RECURSIVE SumRows(_)
SumRows(rows) == IF rows = <<>> THEN 0 ELSE SumSeq(Head(rows)) + SumRows(Tail(rows))

\* sum(sum(row) for row in s) of a 0/1 template
ShapeCellCount(s) == SumRows(s)

\* every entry of a shape matrix, as <<row, column>> (1-based)
Entries(shape) == {rc \in (1..Len(shape)) \X (1..4) : rc[2] <= Len(shape[rc[1]])}

----------------------------------------------------------------------------
(* The random source: the draws explored by the model *)

RandColor == 1..(IF MaxColorDraw < NUM_BLOCK_COLORS THEN MaxColorDraw ELSE NUM_BLOCK_COLORS)

\* random.randrange-style draw that can return mx + 1
RandInt_pastMax(mn, mx) == {v \in mn..(mx + 1) : v > mx + 1 - MaxFillDraw}

RandInt(mn, mx) == {v \in mn..mx : v > mx - MaxFillDraw}

RandShape(pool) == {i \in pool : i <= MaxShapeDraw}

BiasRange(bias) ==
    IF bias = "low" THEN <<1, 3>>
    ELSE IF bias = "high" THEN <<3, 5>>
    ELSE <<1, 5>>

random_piece_from_shape(shape, bias) ==
    LET mn == BiasRange(bias)[1]
        mx == BiasRange(bias)[2]
        ones == {rc \in Entries(shape) : shape[rc[1]][rc[2]] = 1}
    IN { [r \in 1..Len(shape) |->
            [c \in 1..Len(shape[r]) |->
                IF shape[r][c] = 1 THEN f[<<r, c>>] ELSE 0]]
         : f \in [ones -> RandInt(mn, mx)] }

PieceInit(shape, bias) ==
    LET contains_numbers == \E rc \in Entries(shape) : shape[rc[1]][rc[2]] \notin {0, 1}
        filled == IF contains_numbers THEN {shape}
                  ELSE random_piece_from_shape(shape, bias)
    IN { [shape |-> sh, h |-> Len(sh), w |-> Len(sh[1]), color |-> col]
         : sh \in filled, col \in RandColor }

NullPiece == [shape |-> << <<0>> >>, h |-> 1, w |-> 1, color |-> None]

----------------------------------------------------------------------------
(* Placement legality *)

can_place(g, piece, x, y) ==
    \A dy \in 0..(piece.h - 1) : \A dx \in 0..(piece.w - 1) :
        piece.shape[dy + 1][dx + 1] # 0 =>
            /\ ~(x + dx < 0 \/ x + dx >= GRID_SIZE \/ y + dy < 0 \/ y + dy >= GRID_SIZE)
            /\ g[y + dy][x + dx] = 0

find_any_pos(g, piece) ==
    \E y \in 0..(GRID_SIZE - piece.h) : \E x \in 0..(GRID_SIZE - piece.w) :
        can_place(g, piece, x, y)

----------------------------------------------------------------------------
(* Helpers for adaptive generation *)

RECURSIVE SumRowFrom(_, _, _)
SumRowFrom(gn, y, x) ==
    IF x >= GRID_SIZE THEN 0 ELSE gn[y][x] + SumRowFrom(gn, y, x + 1)

RECURSIVE SumColFrom(_, _, _)
SumColFrom(gn, x, y) ==
    IF y >= GRID_SIZE THEN 0 ELSE gn[y][x] + SumColFrom(gn, x, y + 1)

RECURSIVE SumBoardFrom(_, _)
SumBoardFrom(gn, y) ==
    IF y >= GRID_SIZE THEN 0 ELSE SumRowFrom(gn, y, 0) + SumBoardFrom(gn, y + 1)

\* board_average() is sum(vals)/len(vals), or None when vals is empty; the
\* sum and the length are kept apart (None is length 0) so that the
\* comparisons of choose_bias_from_board stay in integers
board_average(gn) ==
    LET n == Cardinality({c \in Cells : gn[c[2]][c[1]] # 0})
    IN <<SumBoardFrom(gn, 0), n>>

choose_bias_from_board(gn) ==
    LET avg == board_average(gn)
    IN IF avg[2] = 0 THEN "neutral"
       ELSE IF 2 * avg[1] >= 7 * avg[2] THEN "low"       \* avg >= 3.5
       ELSE IF avg[1] <= 2 * avg[2] THEN "high"          \* avg <= 2.0
       ELSE "neutral"

find_near_lines_and_needed(g, gn, max_empty) ==
    LET rowEmpties(y) == {x \in Idx : g[y][x] = 0}
        rowSum(y) == SumSeq([i \in 1..GRID_SIZE |->
                        IF g[y][i - 1] = 0 THEN 0 ELSE gn[y][i - 1]])
        colEmpties(x) == {y \in Idx : g[y][x] = 0}
        colSum(x) == SumSeq([i \in 1..GRID_SIZE |->
                        IF g[i - 1][x] = 0 THEN 0 ELSE gn[i - 1][x]])
        keep(empties, s) ==
            /\ 1 <= Cardinality(empties) /\ Cardinality(empties) <= max_empty
            /\ 1 * Cardinality(empties) <= TARGET_SUM - s
            /\ TARGET_SUM - s <= 5 * Cardinality(empties)
    IN { [kind |-> "row", idx |-> y, empties |-> rowEmpties(y),
          needed_total |-> TARGET_SUM - rowSum(y)]
         : y \in {yy \in Idx : keep(rowEmpties(yy), rowSum(yy))} }
       \cup
       { [kind |-> "col", idx |-> x, empties |-> colEmpties(x),
          needed_total |-> TARGET_SUM - colSum(x)]
         : x \in {xx \in Idx : keep(colEmpties(xx), colSum(xx))} }

RECURSIVE compositions(_, _, _, _)
RECURSIVE compositionsFrom(_, _, _, _, _)
\* the tuples in the order the generator yields them
compositions(total, k, mn, mx) ==
    IF k = 1
    THEN IF mn <= total /\ total <= mx THEN << <<total>> >> ELSE << >>
    ELSE compositionsFrom(mn, total, k, mn, mx)

compositionsFrom(v, total, k, mn, mx) ==
    IF v > mx THEN << >>
    ELSE LET rest == compositions(total - v, k - 1, mn, mx)
         IN [i \in 1..Len(rest) |-> <<v>> \o rest[i]]
            \o compositionsFrom(v + 1, total, k, mn, mx)

RECURSIVE RelaxedParts(_, _, _)
\* lines 622-625: try_sum from needed_total-1 down to max(0, needed_total-6)
RelaxedParts(try_sum, low, k) ==
    IF try_sum < low THEN << >>
    ELSE (IF 1 * k <= try_sum /\ try_sum <= 5 * k
          THEN compositions(try_sum, k, 1, 5) ELSE << >>)
         \o RelaxedParts(try_sum - 1, low, k)

Max(a, b) == IF a >= b THEN a ELSE b
Min(a, b) == IF a <= b THEN a ELSE b

\* A search step returns the pieces it can return (res) and whether some
\* outcome of the random draws lets the search go on past it (cont).
NoHit == [res |-> {}, cont |-> TRUE]

\* r, and what follows it when some outcome of r lets the search go on
Then(r, rest) ==
    IF r.cont THEN [res |-> r.res \cup rest.res, cont |-> rest.cont] ELSE r

\* lines 617-620: the candidates that pass can_place are returned; each is
\* kept with the line, the origin, the aligned shape entries and the
\* composition it was built for
Accept(g, candidates, left, top, cand, aligned, parts) ==
    [res  |-> {[piece |-> c, kind |-> cand.kind, idx |-> cand.idx,
                needed_total |-> cand.needed_total, left |-> left, top |-> top,
                aligned |-> aligned, parts |-> parts]
               : c \in {q \in candidates : can_place(g, q, left, top)}},
     cont |-> \E c \in candidates : ~can_place(g, c, left, top)]

\* lines 597-617: the pieces built for one composition
Candidates(shape, alignedDx, parts, fills) ==
    UNION { PieceInit(
              [r \in 1..Len(shape) |-> [c \in 1..Len(shape[1]) |->
                  IF shape[r][c] = 1
                  THEN IF <<r, c>> \in DOMAIN alignedDx
                       THEN parts[alignedDx[<<r, c>>]]
                       ELSE f[<<r, c>>]
                  ELSE 0]],
              "neutral")
            : f \in [{rc \in (1..Len(shape)) \X (1..Len(shape[1])) :
                        shape[rc[1]][rc[2]] = 1 /\ rc \notin DOMAIN alignedDx}
                     -> fills] }

RECURSIVE PartsWalk(_, _, _, _, _, _, _, _, _)
PartsWalk(g, fills, cand, shape, top, left, alignedDx, partsList, i) ==
    IF i > Len(partsList) THEN NoHit
    ELSE Then(Accept(g, Candidates(shape, alignedDx, partsList[i], fills), left, top,
                     cand, DOMAIN alignedDx, partsList[i]),
              PartsWalk(g, fills, cand, shape, top, left, alignedDx, partsList, i + 1))

\* the exact compositions, then those of the relaxed sums (lines 596, 622-625)
PartsList(needed_total, k) ==
    compositions(needed_total, k, 1, 5)
    \o RelaxedParts(needed_total - 1, Max(0, needed_total - 6), k)

\* row_indices in occ_cells order: the aligned cells lie in one shape row, so
\* their order is that of their columns
AlignedDx(positions) ==
    [rc \in positions |-> Cardinality({q \in positions : q[2] <= rc[2]})]

\* lines 565-649 for one shape at one origin (left, top) against row y
AtAlignment(g, fills, cand, s, top, left) ==
    LET shape == SHAPES[s]
        occ == {rc \in (1..Len(shape)) \X (1..Len(shape[1])) : shape[rc[1]][rc[2]] = 1}
        gxOf(rc) == left + rc[2] - 1
        gyOf(rc) == top + rc[1] - 1
        aligned(rc) == gyOf(rc) = cand.idx /\ gxOf(rc) \in cand.empties
        bad(rc) == /\ ~aligned(rc)
                   /\ \/ ~(0 <= gxOf(rc) /\ gxOf(rc) < GRID_SIZE
                           /\ 0 <= gyOf(rc) /\ gyOf(rc) < GRID_SIZE)
                      \/ g[gyOf(rc)][gxOf(rc)] # 0
        positions_is_none == \E rc \in occ : bad(rc)
        positions == {rc \in occ : aligned(rc)}
    IN IF positions_is_none THEN NoHit
       ELSE IF positions = {} THEN NoHit
       ELSE PartsWalk(g, fills, cand, shape, top, left, AlignedDx(positions),
                      PartsList(cand.needed_total, Cardinality(positions)), 1)

RECURSIVE LeftLoop(_, _, _, _, _, _)
LeftLoop(g, fills, cand, s, top, left) ==
    IF left > GRID_SIZE - Len(SHAPES[s][1]) THEN NoHit
    ELSE Then(AtAlignment(g, fills, cand, s, top, left),
              LeftLoop(g, fills, cand, s, top, left + 1))

RECURSIVE TopLoop(_, _, _, _, _)
TopLoop(g, fills, cand, s, top) ==
    IF top > Min(GRID_SIZE - Len(SHAPES[s]), cand.idx) THEN NoHit
    ELSE Then(LeftLoop(g, fills, cand, s, top, 0),
              TopLoop(g, fills, cand, s, top + 1))

RECURSIVE ShapeLoop(_, _, _, _)
ShapeLoop(g, fills, cand, s) ==
    IF s > Len(SHAPES) THEN NoHit
    ELSE Then(IF cand.kind = "row"
              THEN TopLoop(g, fills, cand, s, Max(0, cand.idx - Len(SHAPES[s]) + 1))
              ELSE NoHit,
              ShapeLoop(g, fills, cand, s + 1))

\* lines 603-604 and 613: the draws for a cell outside the target row
BiasFills(gn) ==
    RandInt(BiasRange(choose_bias_from_board(gn))[1],
            BiasRange(choose_bias_from_board(gn))[2])

\* lines 555-649.  random.shuffle can put any candidate first, and a candidate
\* is passed over only when its whole search returns nothing, so the pieces
\* the branch can return are those of every candidate, and it falls through
\* to the exploratory branch only when every candidate can come up empty.
StrategicBranch(g, gn) ==
    LET candidates == find_near_lines_and_needed(g, gn, STRATEGIC_MAX_EMPTY)
        hit == [c \in candidates |-> ShapeLoop(g, BiasFills(gn), c, 1)]
    IN [res  |-> UNION {hit[c].res : c \in candidates},
        cont |-> \A c \in candidates : hit[c].cont]

----------------------------------------------------------------------------
(* Exploratory branch and fallbacks *)

small_shapes == {i \in ShapeIds : ShapeCellCount(SHAPES[i]) <= 2}
medium_shapes == {i \in ShapeIds : 3 <= ShapeCellCount(SHAPES[i]) /\ ShapeCellCount(SHAPES[i]) <= 4}
large_shapes == {i \in ShapeIds : ShapeCellCount(SHAPES[i]) >= 4}
shapes_with_variety == {i \in ShapeIds : ShapeCellCount(SHAPES[i]) > 1}

FreeCells(g) == Cardinality({c \in Cells : g[c[2]][c[1]] = 0})

ShapePool(free_cells) ==
    IF free_cells <= 10 THEN small_shapes \cup medium_shapes
    ELSE IF free_cells <= 20 THEN medium_shapes \cup small_shapes \cup large_shapes
    ELSE ShapeIds

IsSingle(shape) == Len(shape) = 1 /\ Len(shape[1]) = 1

\* one pass of the loop body (lines 659-680) entered with counter c
ExploreTry(g, bias, free_cells, c) ==
    LET picked == UNION { IF IsSingle(SHAPES[i]) /\ c >= 2
                          THEN RandShape(shapes_with_variety)
                          ELSE {i}
                          : i \in RandShape(ShapePool(free_cells)) }
        made == UNION {PieceInit(SHAPES[i], bias) : i \in picked}
    IN { [piece |-> p,
          c5 |-> IF IsSingle(p.shape) /\ p.shape[1][1] = 5 THEN c + 1 ELSE 0,
          ok |-> find_any_pos(g, p)] : p \in made }

\* random.choice(shapes_with_variety) of line 685
RandFallbackShape == {i \in shapes_with_variety : i <= MaxFallbackDraw}

\* lines 683-693, reached with counter c
Fallbacks(g, bias, c) ==
    LET firsts == UNION {PieceInit(SHAPES[i], bias) : i \in RandFallbackShape}
        fit == {p \in firsts : find_any_pos(g, p)}
        last_resort == IF fit = firsts THEN {} ELSE PieceInit(<< <<1, 1>> >>, bias)
    IN {[piece |-> p, c5 |-> c, via |-> "fallback"] : p \in fit}
       \cup {[piece |-> p, c5 |-> c, via |-> "last_resort"] : p \in last_resort}

RECURSIVE ExploreLoop(_, _, _, _, _)
\* The loop of lines 658-680 after k passes, C being the counter values the
\* failed passes can have left.  When a pass cannot change C the remaining
\* passes repeat it, so the walk goes straight to the end of the loop.
ExploreLoop(g, bias, free_cells, k, C) ==
    IF k >= Tries THEN UNION {Fallbacks(g, bias, c) : c \in C}
    ELSE LET outs == UNION {ExploreTry(g, bias, free_cells, c) : c \in C}
             returned == {[piece |-> o.piece, c5 |-> o.c5, via |-> "explore"]
                          : o \in {q \in outs : q.ok}}
             failed == {o.c5 : o \in {q \in outs : ~q.ok}}
         IN returned \cup
            (IF failed = {} THEN {}
             ELSE IF failed = C THEN ExploreLoop(g, bias, free_cells, Tries, C)
             ELSE ExploreLoop(g, bias, free_cells, k + 1, failed))

ExploratoryBranch(g, gn, c) ==
    ExploreLoop(g, choose_bias_from_board(gn), FreeCells(g), 0, {c})

\* The pieces generate_placeable_piece can return at time t, each with the
\* counter it leaves and the path it came by (the strategic branch, a pass of
\* the exploratory loop, the first fallback or the last resort);
\* last_piece_time becomes t on every path.
generate_placeable_piece(g, gn, c5, last, t) ==
    LET c0 == IF t - last > SINGLE5_RESET THEN 0 ELSE c5
        strat == StrategicBranch(g, gn)
        explore == ExploratoryBranch(g, gn, c0)
        \* random.random() < 0.3
        strategic_draw == {[piece |-> h.piece, c5 |-> c0, via |-> "strategic"]
                           : h \in strat.res}
                          \cup (IF strat.cont THEN explore ELSE {})
    IN strategic_draw \cup explore

\* [self.generate_placeable_piece() for _ in range(3)]
ThreePieces(g, gn, c5, last, t) ==
    UNION { UNION { { [pieces |-> [i \in 0..2 |-> IF i = 0 THEN r0.piece
                                            ELSE IF i = 1 THEN r1.piece
                                            ELSE r2.piece],
                       c5 |-> r2.c5]
                      : r2 \in generate_placeable_piece(g, gn, r1.c5, t, t) }
                    : r1 \in generate_placeable_piece(g, gn, r0.c5, t, t) }
            : r0 \in generate_placeable_piece(g, gn, c5, last, t) }

\* any_move_possible asked of the board as it was before the piece was written
any_move_possible_before(g, ps) == \E i \in 0..2 : find_any_pos(grid, ps[i])

any_move_possible(g, ps) == \E i \in 0..2 : find_any_pos(g, ps[i])

----------------------------------------------------------------------------
(* Clearing *)

\* check_and_animate with "s >= TARGET_SUM" for "s == TARGET_SUM"
check_and_animate_atLeast(g, gn) ==
    LET rows == {y \in Idx : (\A x \in Idx : g[y][x] # 0)
                             /\ SumRowFrom(gn, y, 0) >= TARGET_SUM}
        cols == {x \in Idx : (\A y \in Idx : g[y][x] # 0)
                             /\ SumColFrom(gn, x, 0) >= TARGET_SUM}
    IN {c \in Cells : c[2] \in rows} \cup {c \in Cells : c[1] \in cols}

\* the to_clear set of check_and_animate, cells as <<x, y>>
check_and_animate(g, gn) ==
    LET rows == {y \in Idx : (\A x \in Idx : g[y][x] # 0)
                             /\ SumRowFrom(gn, y, 0) = TARGET_SUM}
        cols == {x \in Idx : (\A y \in Idx : g[y][x] # 0)
                             /\ SumColFrom(gn, x, 0) = TARGET_SUM}
    IN {c \in Cells : c[2] \in rows} \cup {c \in Cells : c[1] \in cols}

\* points counted line by line, a crossing cell once for each of its lines
ClearPoints_perLine(to_clear) ==
    ( Cardinality({y \in Idx : \A x \in Idx : <<x, y>> \in to_clear})
    + Cardinality({x \in Idx : \A y \in Idx : <<x, y>> \in to_clear}) )
    * GRID_SIZE * POINTS_PER_CELL

\* pts = len(to_clear) * POINTS_PER_CELL
ClearPoints(to_clear) == Cardinality(to_clear) * POINTS_PER_CELL

\* best overwritten with the score after every placement
BestAfter_always(new_score, old_best) == new_score

\* place_piece, lines 734-735
BestAfter(new_score, old_best) == IF new_score > old_best THEN new_score ELSE old_best

\* the cells update_animations resets at time t
DoneCells(anims, t) ==
    UNION {anims[i].cells : i \in {j \in 1..Len(anims) : t - anims[j].start > CLEAR_ANIM}}

RECURSIVE KeepRunning(_, _)
KeepRunning(anims, t) ==
    IF anims = << >> THEN << >>
    ELSE IF t - Head(anims).start > CLEAR_ANIM THEN KeepRunning(Tail(anims), t)
    ELSE <<Head(anims)>> \o KeepRunning(Tail(anims), t)

----------------------------------------------------------------------------
(* Events *)

\* streak: the longest run of single-5 pieces the deals of the step reached
Ev(kind) == [kind |-> kind, slot |-> -1, x |-> -1, y |-> -1,
             piece |-> NullPiece, cleared |-> {}, pts |-> 0, streak |-> 0]

\* the run of single-5 pieces after piece p has been dealt
RunAfter(run, p) ==
    IF IsSingle(p.shape) /\ p.shape[1][1] = 5 THEN Min(run + 1, 3) ELSE 0

\* the longest run reached while three pieces are dealt in slot order
RunPeak(run, ps) ==
    Max(RunAfter(run, ps[0]),
        Max(RunAfter(RunAfter(run, ps[0]), ps[1]),
            RunAfter(RunAfter(RunAfter(run, ps[0]), ps[1]), ps[2])))

RunAfterThree(run, ps) == RunAfter(RunAfter(RunAfter(run, ps[0]), ps[1]), ps[2])

EmptyGrid == [y \in Idx |-> [x \in Idx |-> 0]]
NoPieces == [i \in 0..2 |-> NullPiece]

\* main(): game = None; the fields of the discarded object are gone
GameDiscarded ==
    /\ game' = "None"
    /\ grid' = EmptyGrid /\ grid_nums' = EmptyGrid /\ grid_colors' = EmptyGrid
    /\ pieces' = NoPieces
    /\ selected' = NoSelection /\ dragging' = FALSE
    /\ score' = 0 /\ best' = 0
    /\ game_over' = FALSE /\ paused' = FALSE /\ timed_mode' = FALSE
    /\ start_time' = 0 /\ last_piece_time' = 0
    /\ consecutive_single_5s' = 0
    /\ animations' = << >>
    /\ play_time' = 0 /\ single5_run' = 0 /\ cells_reset' = 0
    /\ fresh_cells' = {}

InGame == ~menu_active /\ game = "Game"

\* the cells place_piece writes, as <<x, y>>
Covered(piece, x, y) ==
    {<<x + dx, y + dy>> : <<dx, dy>> \in
        {d \in (0..(piece.w - 1)) \X (0..(piece.h - 1)) : piece.shape[d[2] + 1][d[1] + 1] # 0}}

\* Menu.handle_click on the TIMED MODE / RELAXED MODE button, then
\* BlockBlastGame(timed_mode=menu.timed_mode)
MenuChooseMode(timed) ==
    /\ menu_active
    /\ moves < MaxMoves
    /\ \E r \in ThreePieces(EmptyGrid, EmptyGrid, 0, now, now) :
        /\ pieces' = r.pieces
        /\ consecutive_single_5s' = r.c5
        /\ single5_run' = RunAfterThree(0, r.pieces)
        /\ ev' = [Ev("new_game") EXCEPT !.streak = RunPeak(0, r.pieces)]
    /\ menu_active' = FALSE
    /\ game' = "Game"
    /\ grid' = EmptyGrid /\ grid_nums' = EmptyGrid /\ grid_colors' = EmptyGrid
    /\ last_piece_time' = now
    /\ selected' = NoSelection /\ dragging' = FALSE
    /\ score' = 0
    /\ best' = best_file
    /\ game_over' = FALSE
    /\ start_time' = now
    /\ animations' = << >>
    /\ paused' = FALSE
    /\ timed_mode' = timed
    /\ moves' = MaxMoves
    /\ play_time' = 0 /\ cells_reset' = 0
    /\ fresh_cells' = {}
    /\ UNCHANGED <<best_file, now>>

\* handle_click, lines 902-904
ClickGameOver ==
    /\ InGame /\ game_over
    /\ menu_active' = TRUE
    /\ GameDiscarded
    /\ ev' = Ev("click_menu")
    /\ UNCHANGED <<best_file, now, moves>>

\* handle_click, lines 905-906
ClickPaused ==
    /\ InGame /\ ~game_over /\ paused
    /\ ev' = Ev("click_ignored")
    /\ UNCHANGED <<menu_active, game, grid, grid_nums, grid_colors, pieces,
                   selected, dragging, score, best, best_file, game_over,
                   paused, timed_mode, start_time, last_piece_time,
                   consecutive_single_5s, animations, now, moves,
                   play_time, single5_run, cells_reset, fresh_cells>>

\* reset() without its self.animations = []
ClickRestart_keepsAnimations ==
    /\ InGame /\ ~game_over /\ ~paused
    /\ moves < MaxMoves
    /\ \E r \in ThreePieces(EmptyGrid, EmptyGrid, consecutive_single_5s,
                            last_piece_time, now) :
        /\ pieces' = r.pieces
        /\ single5_run' = RunAfterThree(single5_run, r.pieces)
        /\ ev' = [Ev("restart") EXCEPT !.streak = RunPeak(single5_run, r.pieces)]
    /\ grid' = EmptyGrid /\ grid_nums' = EmptyGrid /\ grid_colors' = EmptyGrid
    /\ last_piece_time' = now
    /\ selected' = NoSelection /\ dragging' = FALSE
    /\ score' = 0
    /\ game_over' = FALSE
    /\ start_time' = now
    /\ animations' = animations
    /\ paused' = FALSE
    /\ consecutive_single_5s' = 0
    /\ moves' = MaxMoves
    /\ play_time' = 0 /\ cells_reset' = 0
    /\ fresh_cells' = {}
    /\ UNCHANGED <<menu_active, game, best, best_file, timed_mode, now>>

\* handle_click, lines 909-911, and reset()
ClickRestart ==
    /\ InGame /\ ~game_over /\ ~paused
    /\ moves < MaxMoves
    /\ \E r \in ThreePieces(EmptyGrid, EmptyGrid, consecutive_single_5s,
                            last_piece_time, now) :
        /\ pieces' = r.pieces
        /\ single5_run' = RunAfterThree(single5_run, r.pieces)
        /\ ev' = [Ev("restart") EXCEPT !.streak = RunPeak(single5_run, r.pieces)]
    /\ grid' = EmptyGrid /\ grid_nums' = EmptyGrid /\ grid_colors' = EmptyGrid
    /\ last_piece_time' = now
    /\ selected' = NoSelection /\ dragging' = FALSE
    /\ score' = 0
    /\ game_over' = FALSE
    /\ start_time' = now
    /\ animations' = << >>
    /\ paused' = FALSE
    /\ consecutive_single_5s' = 0
    /\ moves' = MaxMoves
    /\ play_time' = 0 /\ cells_reset' = 0
    /\ fresh_cells' = {}
    /\ UNCHANGED <<menu_active, game, best, best_file, timed_mode, now>>

\* handle_click, lines 914-915
ClickQuit ==
    /\ InGame /\ ~game_over /\ ~paused
    /\ menu_active' = TRUE
    /\ GameDiscarded
    /\ ev' = Ev("click_menu")
    /\ UNCHANGED <<best_file, now, moves>>

\* place_piece(idx, piece, x, y), lines 719-738
place_piece(idx, piece, x, y) ==
    LET cov == Covered(piece, x, y)
        g1 == [yy \in Idx |-> [xx \in Idx |->
                  IF <<xx, yy>> \in cov THEN 1 ELSE grid[yy][xx]]]
        gn1 == [yy \in Idx |-> [xx \in Idx |->
                  IF <<xx, yy>> \in cov THEN piece.shape[yy - y + 1][xx - x + 1]
                  ELSE grid_nums[yy][xx]]]
        gc1 == [yy \in Idx |-> [xx \in Idx |->
                  IF <<xx, yy>> \in cov THEN piece.color ELSE grid_colors[yy][xx]]]
        to_clear == check_and_animate(g1, gn1)
        pts == ClearPoints(to_clear)
    IN /\ grid' = g1 /\ grid_nums' = gn1 /\ grid_colors' = gc1
       /\ \E r \in generate_placeable_piece(g1, gn1, consecutive_single_5s,
                                            last_piece_time, now) :
            /\ pieces' = [pieces EXCEPT ![idx] = r.piece]
            /\ consecutive_single_5s' = r.c5
            /\ single5_run' = RunAfter(single5_run, r.piece)
       /\ last_piece_time' = now
       /\ animations' = IF to_clear # {}
                        THEN Append(animations, [cells |-> to_clear, start |-> now])
                        ELSE animations
       /\ score' = score + pts
       /\ best' = BestAfter(score', best)
       \* save_best() swallows a failed write
       /\ best_file' \in (IF score' > best THEN {best', best_file} ELSE {best_file})
       /\ game_over' = IF ~any_move_possible(g1, pieces') THEN TRUE ELSE game_over
       /\ ev' = [kind |-> "place", slot |-> idx, x |-> x, y |-> y,
                 piece |-> piece, cleared |-> to_clear, pts |-> pts,
                 streak |-> single5_run']
       /\ fresh_cells' = (fresh_cells \cup cov) \ to_clear

\* a board click that places the piece in hand without asking can_place
ClickBoard_noCheck(gx, gy) ==
    /\ InGame /\ ~game_over /\ ~paused
    /\ IF dragging /\ selected # NoSelection
       THEN /\ moves < MaxMoves
            /\ place_piece(selected, pieces[selected], gx, gy)
            /\ moves' = moves + 1
            /\ dragging' = FALSE
            /\ selected' = NoSelection
       ELSE /\ ev' = Ev("click_board_idle")
            /\ UNCHANGED <<grid, grid_nums, grid_colors, pieces, score, best,
                           best_file, game_over, last_piece_time,
                           consecutive_single_5s, animations, moves,
                           dragging, selected, single5_run,
                           fresh_cells>>
    /\ UNCHANGED <<menu_active, game, paused, timed_mode, start_time, now,
                   play_time, cells_reset>>

\* handle_click, lines 917-925: a click on board cell (gx, gy)
ClickBoard(gx, gy) ==
    /\ InGame /\ ~game_over /\ ~paused
    /\ IF dragging /\ selected # NoSelection
       THEN /\ IF can_place(grid, pieces[selected], gx, gy)
               THEN /\ moves < MaxMoves
                    /\ place_piece(selected, pieces[selected], gx, gy)
                    /\ moves' = moves + 1
               ELSE /\ ev' = Ev("place_rejected")
                    /\ UNCHANGED <<grid, grid_nums, grid_colors, pieces, score,
                                   best, best_file, game_over, last_piece_time,
                                   consecutive_single_5s, animations, moves,
                                   single5_run,
                           fresh_cells>>
            /\ dragging' = FALSE
            /\ selected' = NoSelection
       ELSE /\ ev' = Ev("click_board_idle")
            /\ UNCHANGED <<grid, grid_nums, grid_colors, pieces, score, best,
                           best_file, game_over, last_piece_time,
                           consecutive_single_5s, animations, moves,
                           dragging, selected, single5_run,
                           fresh_cells>>
    /\ UNCHANGED <<menu_active, game, paused, timed_mode, start_time, now,
                   play_time, cells_reset>>

\* handle_click, lines 927-935: a click on piece slot i
ClickSlot(i) ==
    /\ InGame /\ ~game_over /\ ~paused
    /\ selected' = i
    /\ dragging' = TRUE
    /\ ev' = Ev("select")
    /\ UNCHANGED <<menu_active, game, grid, grid_nums, grid_colors, pieces,
                   score, best, best_file, game_over, paused, timed_mode,
                   start_time, last_piece_time, consecutive_single_5s,
                   animations, now, moves, play_time, single5_run,
                   cells_reset, fresh_cells>>

\* main(), lines 1014-1017
KeyEscape ==
    /\ InGame
    /\ menu_active' = TRUE
    /\ GameDiscarded
    /\ ev' = Ev("escape")
    /\ UNCHANGED <<best_file, now, moves>>

\* main(), lines 1018-1021
KeyP ==
    /\ InGame
    /\ paused' = ~paused
    /\ ev' = Ev("key_p")
    /\ UNCHANGED <<menu_active, game, grid, grid_nums, grid_colors, pieces,
                   selected, dragging, score, best, best_file, game_over,
                   timed_mode, start_time, last_piece_time,
                   consecutive_single_5s, animations, now, moves,
                   play_time, single5_run, cells_reset, fresh_cells>>

\* update() guarded by the game-over flag only
UpdateRuns_ignoresPause == ~game_over

\* update() guarded by the pause flag only
UpdateRuns_ignoresGameOver == ~paused

\* update(), line 955
UpdateRuns == ~paused /\ ~game_over

\* the timer test without its timed_mode conjunct
TimerExpired_anyMode == now - start_time > TIMER_SECONDS * 100

\* update(), line 957
TimerExpired == timed_mode /\ now - start_time > TIMER_SECONDS * 100

\* update(dt), lines 954-958, with update_animations(), lines 767-785
Update ==
    /\ InGame
    /\ IF UpdateRuns
       THEN LET done == DoneCells(animations, now)
            IN /\ grid' = [y \in Idx |-> [x \in Idx |->
                              IF <<x, y>> \in done /\ grid[y][x] # 0 THEN 0 ELSE grid[y][x]]]
               /\ grid_nums' = [y \in Idx |-> [x \in Idx |->
                              IF <<x, y>> \in done /\ grid[y][x] # 0 THEN 0 ELSE grid_nums[y][x]]]
               /\ grid_colors' = [y \in Idx |-> [x \in Idx |->
                              IF <<x, y>> \in done /\ grid[y][x] # 0 THEN None ELSE grid_colors[y][x]]]
               /\ animations' = KeepRunning(animations, now)
               /\ game_over' = IF TimerExpired THEN TRUE ELSE game_over
               /\ cells_reset' = cells_reset
                    + Cardinality({c \in done : grid[c[2]][c[1]] # 0})
               /\ fresh_cells' = fresh_cells \ done
       ELSE UNCHANGED <<grid, grid_nums, grid_colors, animations, game_over,
                        cells_reset, fresh_cells>>
    /\ ev' = Ev("update")
    /\ UNCHANGED <<menu_active, game, pieces, selected, dragging, score, best,
                   best_file, paused, timed_mode, start_time, last_piece_time,
                   consecutive_single_5s, now, moves, play_time, single5_run>>

\* perf_counter() moves on between two events
AdvanceTime ==
    /\ now < MaxTicks * TimeStep
    /\ now' = now + TimeStep
    /\ play_time' = IF InGame /\ ~paused /\ ~game_over
                     THEN play_time + TimeStep ELSE play_time
    /\ ev' = Ev("time")
    /\ UNCHANGED <<menu_active, game, grid, grid_nums, grid_colors, pieces,
                   selected, dragging, score, best, best_file, game_over,
                   paused, timed_mode, start_time, last_piece_time,
                   consecutive_single_5s, animations, moves, single5_run,
                   cells_reset, fresh_cells>>

----------------------------------------------------------------------------
(* Initial states: the menu main() starts in, and three sessions in progress *)

\* a board in progress, row by row (row y is CrossRows[y + 1]): row 0 and
\* column 6 both lack only cell (6, 0) and need 3 there; rows 1, 2 and 6 are
\* full with sums 22, 30 and 12
CrossRows == <<
    <<4, 4, 4, 4, 3, 3, 0>>,
    <<3, 3, 3, 3, 3, 3, 4>>,
    <<5, 5, 5, 5, 5, 1, 4>>,
    <<0, 0, 2, 2, 1, 1, 4>>,
    <<0, 1, 2, 1, 1, 2, 4>>,
    <<0, 1, 2, 2, 1, 1, 3>>,
    <<1, 1, 2, 2, 1, 2, 3>>
>>

\* a nearly full board: only (0, 0) and (2, 0) are empty, row 0 needs 5
HolesRows == <<
    <<0, 4, 0, 4, 4, 4, 4>>,
    <<3, 3, 3, 3, 3, 3, 3>>,
    <<3, 3, 3, 3, 3, 3, 3>>,
    <<3, 3, 3, 3, 3, 3, 3>>,
    <<3, 3, 3, 3, 3, 3, 3>>,
    <<3, 3, 3, 3, 3, 3, 3>>,
    <<3, 3, 3, 3, 3, 3, 3>>
>>

\* two rows near completion: row 0 has five cells summing to 20 and lacks
\* (0, 0) and (1, 0); row 2 sums to 24 and lacks (6, 2)
NearRows == <<
    <<0, 0, 4, 4, 4, 4, 4>>,
    <<3, 3, 3, 3, 3, 3, 3>>,
    <<5, 5, 5, 5, 2, 2, 0>>,
    <<3, 3, 3, 3, 3, 3, 3>>,
    <<3, 3, 3, 3, 3, 3, 3>>,
    <<3, 3, 3, 3, 3, 3, 3>>,
    <<3, 3, 3, 3, 3, 3, 3>>
>>

MkPiece(shape, color) == [shape |-> shape, h |-> Len(shape), w |-> Len(shape[1]), color |-> color]

CrossPieces == [i \in 0..2 |->
    IF i = 0 THEN MkPiece(<< <<3>> >>, 2)
    ELSE IF i = 1 THEN MkPiece(<< <<2>>, <<2, 5>>, <<2>> >>, 2)
    ELSE MkPiece(<< <<1, 2>> >>, 2)]

HolesPieces == [i \in 0..2 |->
    IF i = 0 THEN MkPiece(<< <<3>> >>, 2)
    ELSE IF i = 1 THEN MkPiece(<< <<2>> >>, 2)
    ELSE MkPiece(<< <<3, 3>> >>, 2)]

NearPieces == [i \in 0..2 |->
    IF i = 0 THEN MkPiece(<< <<5>> >>, 2)
    ELSE IF i = 1 THEN MkPiece(<< <<3>> >>, 2)
    ELSE MkPiece(<< <<2, 2>> >>, 2)]

InSession(rows, ps, timed, b) ==
    /\ menu_active = FALSE
    /\ game = "Game"
    /\ grid = [y \in Idx |-> [x \in Idx |-> IF rows[y + 1][x + 1] # 0 THEN 1 ELSE 0]]
    /\ grid_nums = [y \in Idx |-> [x \in Idx |-> rows[y + 1][x + 1]]]
    /\ grid_colors = [y \in Idx |-> [x \in Idx |-> IF rows[y + 1][x + 1] # 0 THEN 1 ELSE None]]
    /\ pieces = ps
    /\ selected = NoSelection /\ dragging = FALSE
    /\ score = 0 /\ best = b /\ best_file = b
    /\ game_over = FALSE /\ paused = FALSE /\ timed_mode = timed
    /\ start_time = 0 /\ last_piece_time = 0
    /\ consecutive_single_5s = 0
    /\ animations = << >>
    /\ play_time = 0 /\ cells_reset = 0
    /\ fresh_cells = {}
    /\ single5_run = RunAfterThree(0, ps)

InMenu ==
    /\ menu_active = TRUE
    /\ game = "None"
    /\ grid = EmptyGrid /\ grid_nums = EmptyGrid /\ grid_colors = EmptyGrid
    /\ pieces = NoPieces
    /\ selected = NoSelection /\ dragging = FALSE
    /\ score = 0 /\ best = 0 /\ best_file = 0
    /\ game_over = FALSE /\ paused = FALSE /\ timed_mode = FALSE
    /\ start_time = 0 /\ last_piece_time = 0
    /\ consecutive_single_5s = 0
    /\ animations = << >>
    /\ play_time = 0 /\ single5_run = 0 /\ cells_reset = 0
    /\ fresh_cells = {}

Init ==
    /\ now = 0
    /\ moves = 0
    /\ ev = Ev("init")
    /\ \/ InMenu
       \/ InSession(CrossRows, CrossPieces, FALSE, 150)
       \/ InSession(HolesRows, HolesPieces, TRUE, 300)
       \/ InSession(NearRows, NearPieces, FALSE, 300)

Next ==
    \/ \E timed \in BOOLEAN : MenuChooseMode(timed)
    \/ ClickGameOver
    \/ ClickPaused
    \/ ClickRestart
    \/ ClickQuit
    \/ \E gx \in Idx : \E gy \in Idx : ClickBoard(gx, gy)
    \/ \E i \in 0..2 : ClickSlot(i)
    \/ KeyEscape
    \/ KeyP
    \/ Update
    \/ AdvanceTime

Spec == Init /\ [][Next]_vars

----------------------------------------------------------------------------
(* A relaxed game seen frame by frame while clears are pending *)

\* perf_counter() moves on by less than CLEAR_ANIM between two events
AdvanceShort ==
    /\ now < MaxShortTicks * ShortStep
    /\ now' = now + ShortStep
    /\ play_time' = IF InGame /\ ~paused /\ ~game_over
                     THEN play_time + ShortStep ELSE play_time
    /\ ev' = Ev("time")
    /\ UNCHANGED <<menu_active, game, grid, grid_nums, grid_colors, pieces,
                   selected, dragging, score, best, best_file, game_over,
                   paused, timed_mode, start_time, last_piece_time,
                   consecutive_single_5s, animations, moves, single5_run,
                   cells_reset, fresh_cells>>

\* a board on which row 0 has just been completed (full, sum 25) and is still
\* shown; column 6 lacks only cell (6, 3) and needs 3 there; cell (0, 6) is
\* empty; no other row or column can reach 25
ClearsRows == <<
    <<4, 4, 4, 4, 3, 3, 3>>,
    <<3, 3, 3, 3, 3, 3, 4>>,
    <<3, 3, 3, 3, 3, 3, 4>>,
    <<3, 3, 3, 3, 3, 3, 0>>,
    <<3, 3, 3, 3, 3, 3, 4>>,
    <<3, 3, 3, 3, 3, 3, 4>>,
    <<0, 3, 3, 3, 3, 3, 3>>
>>

ClearsPieces == [i \in 0..2 |->
    IF i = 0 THEN MkPiece(<< <<3>> >>, 2)
    ELSE IF i = 1 THEN MkPiece(<< <<2>> >>, 2)
    ELSE MkPiece(<< <<2, 2>> >>, 2)]

\* the game right after the placement that completed row 0: check_and_animate
\* has recorded the row and added its 105 points, update() has not run since
InitClears ==
    /\ now = 0
    /\ moves = 0
    /\ ev = Ev("init")
    /\ menu_active = FALSE
    /\ game = "Game"
    /\ grid = [y \in Idx |-> [x \in Idx |-> IF ClearsRows[y + 1][x + 1] # 0 THEN 1 ELSE 0]]
    /\ grid_nums = [y \in Idx |-> [x \in Idx |-> ClearsRows[y + 1][x + 1]]]
    /\ grid_colors = [y \in Idx |-> [x \in Idx |-> IF ClearsRows[y + 1][x + 1] # 0 THEN 1 ELSE None]]
    /\ pieces = ClearsPieces
    /\ selected = NoSelection /\ dragging = FALSE
    /\ score = 7 * POINTS_PER_CELL /\ best = 600 /\ best_file = 600
    /\ game_over = FALSE /\ paused = FALSE /\ timed_mode = FALSE
    /\ start_time = 0 /\ last_piece_time = 0
    /\ consecutive_single_5s = 0
    /\ animations = <<[cells |-> {c \in Cells : c[2] = 0}, start |-> 0]>>
    /\ play_time = 0 /\ cells_reset = 0
    /\ fresh_cells = {}
    /\ single5_run = RunAfterThree(0, ClearsPieces)

NextClears ==
    \/ \E gx \in Idx : \E gy \in Idx : ClickBoard(gx, gy)
    \/ \E i \in 0..2 : ClickSlot(i)
    \/ Update
    \/ AdvanceShort

SpecClears == InitClears /\ [][NextClears]_vars

----------------------------------------------------------------------------
(* Properties *)

Origins == (-1..7) \X (-1..7)

\* every entry of the piece's shape, hidden or not, lies on an empty board cell
AllEntriesFit(g, p, x, y) ==
    \A rc \in Entries(p.shape) :
        p.shape[rc[1]][rc[2]] # 0 =>
            /\ 0 <= x + rc[2] - 1 /\ x + rc[2] - 1 < 7
            /\ 0 <= y + rc[1] - 1 /\ y + rc[1] - 1 < 7
            /\ g[y + rc[1] - 1][x + rc[2] - 1] = 0

HasLegalOrigin(g, p) == \E o \in Origins : can_place(g, p, o[1], o[2])

RowFullExact(g, gn, y) ==
    /\ \A x \in 0..6 : g[y][x] = 1
    /\ SumSeq([i \in 1..7 |-> gn[y][i - 1]]) = 25

ColFullExact(g, gn, x) ==
    /\ \A y \in 0..6 : g[y][x] = 1
    /\ SumSeq([i \in 1..7 |-> gn[i - 1][x]]) = 25

\* the distinct cells of all full lines that sum to exactly 25
QualifyingCells(g, gn) ==
    {c \in (0..6) \X (0..6) : RowFullExact(g, gn, c[2]) \/ ColFullExact(g, gn, c[1])}

\* C1: on a board with at least one empty cell, every piece the generator
\* returns (to a slot after a placement, or to the three slots of a new or
\* restarted game) has some origin at which can_place holds
C1_GeneratedPieceIsPlaceable ==
    /\ (ev.kind = "place" /\ (\E c \in Cells : grid[c[2]][c[1]] = 0))
          => HasLegalOrigin(grid, pieces[ev.slot])
    /\ ev.kind \in {"new_game", "restart"}
          => \A i \in 0..2 : HasLegalOrigin(grid, pieces[i])

\* C2: the clear-set of the evaluation run by a placement holds a cell if and
\* only if the cell's row or its column is fully occupied and sums to 25
C2_ClearSetIsFullExactLines ==
    ev.kind = "place" =>
        \A c \in Cells :
            c \in ev.cleared <=>
                (RowFullExact(grid, grid_nums, c[2]) \/ ColFullExact(grid, grid_nums, c[1]))

\* a placement completed row 0 (sum 25) while row 2, full with sum 30, stayed
C2_Witness ==
    /\ ev.kind = "place"
    /\ <<0, 0>> \in ev.cleared
    /\ <<0, 2>> \notin ev.cleared
    /\ \A x \in Idx : grid[2][x] = 1
    /\ SumRowFrom(grid_nums, 2, 0) = 30
    /\ \E c \in Cells : grid[c[2]][c[1]] = 0

\* C3: for every held piece and every origin, can_place holds if and only if
\* every occupied entry of the piece's shape maps to an in-bounds empty cell
C3_CanPlaceIffEveryEntryFits ==
    game = "Game" =>
        \A i \in 0..2 : \A o \in Origins :
            can_place(grid, pieces[i], o[1], o[2])
                <=> AllEntriesFit(grid, pieces[i], o[1], o[2])

\* the board cell under entry rc of a piece placed at (x, y)
EntryCell(rc, x, y) == <<x + rc[2] - 1, y + rc[1] - 1>>

OccupiedEntries(p) == {rc \in Entries(p.shape) : p.shape[rc[1]][rc[2]] # 0}

\* C4: a placement writes exactly the cells under the occupied entries of the
\* piece's shape (occupied, the entry's value, the piece's color), occupies as
\* many new cells as the shape has occupied entries, and leaves the rest alone
C4_PlaceWritesExactlyTheShape ==
    [][ev'.kind = "place" =>
        LET p == ev'.piece
            under == {EntryCell(rc, ev'.x, ev'.y) : rc \in OccupiedEntries(p)}
        IN /\ \A rc \in OccupiedEntries(p) :
                LET c == EntryCell(rc, ev'.x, ev'.y)
                IN /\ c \in Cells
                   /\ grid'[c[2]][c[1]] = 1
                   /\ grid_nums'[c[2]][c[1]] = p.shape[rc[1]][rc[2]]
                   /\ grid_colors'[c[2]][c[1]] = p.color
           /\ Cardinality({c \in Cells : grid[c[2]][c[1]] = 0 /\ grid'[c[2]][c[1]] = 1})
                 = Cardinality(OccupiedEntries(p))
           /\ \A c \in Cells \ under :
                /\ grid'[c[2]][c[1]] = grid[c[2]][c[1]]
                /\ grid_nums'[c[2]][c[1]] = grid_nums[c[2]][c[1]]
                /\ grid_colors'[c[2]][c[1]] = grid_colors[c[2]][c[1]]
       ]_vars

\* C5: when a placement is evaluated, the cells of every clear-set found by
\* an earlier evaluation are already empty, and the lines the new evaluation
\* selects are lines that did not qualify before the placement
C5_ClearedBeforeNextPlacement ==
    [][ev'.kind = "place" =>
        /\ \A i \in 1..Len(animations) : \A c \in animations[i].cells :
              /\ grid[c[2]][c[1]] = 0
              /\ grid_nums[c[2]][c[1]] = 0
              /\ grid_colors[c[2]][c[1]] = None
        /\ ev'.cleared \cap QualifyingCells(grid, grid_nums) = {}
       ]_vars

\* C6: one evaluation adds to the score 15 times the number of distinct cells
\* of the qualifying rows and columns; with no qualifying line it returns
\* (0, 0), leaves the score alone, records no clear and empties no cell
C6_ScoreIsFifteenPerDistinctCell ==
    [][ev'.kind = "place" =>
        LET k == Cardinality(QualifyingCells(grid', grid_nums'))
        IN /\ score' = score + 15 * k
           /\ ev'.pts = 15 * k
           /\ Cardinality(ev'.cleared) = k
           /\ k = 0 => /\ score' = score
                       /\ animations' = animations
                       /\ \A c \in Cells : grid[c[2]][c[1]] = 1 => grid'[c[2]][c[1]] = 1
       ]_vars

\* one placement completed row 0 and column 6 together: 13 cells, 195 points
C6_Witness ==
    /\ ev.kind = "place"
    /\ Cardinality(ev.cleared) = 13
    /\ ev.pts = 195
    /\ score = 195

\* C7: within a game object best never decreases; a placement leaves
\* best >= score, raising best to the score exactly when the score exceeds
\* it; a restart sets the score to 0 and keeps best; nothing else changes best
C7_BestFollowsScore ==
    [][(game = "Game" /\ game' = "Game") =>
        /\ best' >= best
        /\ ev'.kind = "place" =>
              /\ best' >= score'
              /\ (score' > best => best' = score')
              /\ (score' <= best => best' = best)
        /\ ev'.kind = "restart" => (score' = 0 /\ best' = best)
        /\ ev'.kind # "place" => best' = best
       ]_vars

\* a restart after a clear that had raised best above its initial value
C7_Witness ==
    /\ ev.kind = "restart"
    /\ score = 0
    /\ best = 195

\* C8: a placement after which none of the three held pieces has a legal
\* origin sets game_over
C8_NoMoveSetsGameOver ==
    (ev.kind = "place" /\ \A i \in 0..2 : ~HasLegalOrigin(grid, pieces[i]))
        => game_over

\* a placement in an untimed-out game left no held piece a legal origin
C8_Witness ==
    /\ ev.kind = "place"
    /\ game_over
    /\ \A i \in 0..2 : ~HasLegalOrigin(grid, pieces[i])

\* C9: once game_over is set, a step either discards the game and returns to
\* the menu (a click or ESC), or leaves game_over, the board, the pieces and
\* the score as they are
C9_GameOverIsTerminal ==
    [][(game = "Game" /\ game_over) =>
        \/ /\ game' = "None" /\ menu_active'
           /\ ev'.kind \in {"click_menu", "escape"}
        \/ /\ game' = "Game" /\ ~menu_active' /\ game_over'
           /\ grid' = grid /\ grid_nums' = grid_nums /\ grid_colors' = grid_colors
           /\ pieces' = pieces
           /\ score' = score
       ]_vars

\* an update tick ran on a finished game whose last clear is still pending
\* and due
C9_Witness ==
    /\ game = "Game" /\ game_over
    /\ ev.kind = "update"
    /\ \E i \in 1..Len(animations) : now - animations[i].start > 45

\* C10: in timed mode an update of a running game whose elapsed time exceeds
\* 180 seconds sets game_over; in relaxed mode game_over is only ever set by
\* a placement
C10_TimerEndsTimedGamesOnly ==
    [][/\ (/\ ev'.kind = "update" /\ game = "Game" /\ timed_mode
           /\ ~paused /\ ~game_over /\ now - start_time > 180 * 100)
          => game_over'
       /\ (game = "Game" /\ ~timed_mode /\ ~game_over /\ game' = "Game" /\ game_over')
          => ev'.kind = "place"
      ]_vars

\* a timed game ended by an update although a held piece still has a legal
\* origin
C10_Witness ==
    /\ game = "Game" /\ timed_mode /\ game_over
    /\ ev.kind = "update"
    /\ \E i \in 0..2 : HasLegalOrigin(grid, pieces[i])

\* C11: time spent paused does not count toward the limit of a timed game:
\* an update ends a timed game by timer only after the game has spent more
\* than 180 seconds running (not paused) since its timer was started
C11_PausedTimeDoesNotCount ==
    [][(/\ ev'.kind = "update" /\ game = "Game" /\ timed_mode
        /\ ~game_over /\ game_over')
          => play_time > 180 * 100
      ]_vars

\* C12: while a running game is paused, a step that is neither the pause
\* toggle nor ESC (any click, any update tick) leaves the board, the three
\* pieces, the score, the selection, game_over and the pause itself unchanged
C12_PausedIsFrozen ==
    [][(/\ game = "Game" /\ paused /\ ~game_over
        /\ ev'.kind \notin {"key_p", "escape"})
          => /\ game' = "Game" /\ ~menu_active' /\ paused'
             /\ grid' = grid /\ grid_nums' = grid_nums /\ grid_colors' = grid_colors
             /\ pieces' = pieces
             /\ score' = score
             /\ selected' = selected /\ dragging' = dragging
             /\ game_over' = game_over
      ]_vars

\* an update tick ran on a paused timed game whose time was up, and left it
\* running with a piece still in hand
C12_Witness ==
    /\ game = "Game" /\ paused /\ ~game_over
    /\ ev.kind = "update"
    /\ timed_mode /\ now - start_time > 180 * 100
    /\ dragging /\ selected # NoSelection

\* C13: a board click with a piece in hand places it only at an origin where
\* can_place holds; otherwise the attempt is rejected and the board, the three
\* pieces, the score, best and game_over are unchanged, no piece is generated
\* (the generator's counter and time stamp stay), the session goes on, and
\* only the drag and the selection are dropped
C13_RejectedPlacementIsNoOp ==
    [][(game = "Game" /\ ev'.kind \in {"place", "place_rejected"}) =>
        /\ dragging /\ selected # NoSelection
        /\ ev'.kind = "place" =>
              can_place(grid, pieces[selected], ev'.x, ev'.y)
        /\ ev'.kind = "place_rejected" =>
              /\ \E o \in Cells : ~can_place(grid, pieces[selected], o[1], o[2])
              /\ grid' = grid /\ grid_nums' = grid_nums /\ grid_colors' = grid_colors
              /\ pieces' = pieces
              /\ score' = score /\ best' = best /\ best_file' = best_file
              /\ game_over' = game_over
              /\ last_piece_time' = last_piece_time
              /\ consecutive_single_5s' = consecutive_single_5s
              /\ animations' = animations
              /\ game' = "Game" /\ ~menu_active' /\ ~paused'
              /\ ~dragging' /\ selected' = NoSelection
      ]_vars

\* a placement was rejected after an earlier one had gone through, and the
\* game goes on with nothing in hand
C13_Witness ==
    /\ game = "Game" /\ ~game_over
    /\ ev.kind = "place_rejected"
    /\ moves = 1
    /\ ~dragging /\ selected = NoSelection

\* the board columns under the aligned entries of a strategic piece
AlignedColumns(h) == {h.left + rc[2] - 1 : rc \in h.aligned}

\* the values a strategic piece carries on its aligned entries, left to right
AlignedValues(h) ==
    [i \in 1..Cardinality(h.aligned) |->
        LET rc == CHOOSE q \in h.aligned :
                      Cardinality({r \in h.aligned : r[2] <= q[2]}) = i
        IN h.piece.shape[rc[1]][rc[2]]]

RowEmpties(g, y) == {x \in 0..6 : g[y][x] = 0}

\* C14: when the generator runs on a board with a row of five occupied cells
\* summing to 20 and two empty cells, the strategic branch can return, for
\* that row, a piece whose aligned cells cover both empty cells with values
\* summing to 5, placeable at the searched origin
C14_StrategicFillsBothCells ==
    ev.kind = "place" =>
        \A y \in 0..6 :
            (/\ Cardinality(RowEmpties(grid, y)) = 2
             /\ SumSeq([i \in 1..7 |-> grid_nums[y][i - 1]]) = 20)
            => \E h \in StrategicBranch(grid, grid_nums).res :
                  /\ h.kind = "row" /\ h.idx = y
                  /\ AlignedColumns(h) = RowEmpties(grid, y)
                  /\ SumSeq(AlignedValues(h)) = 5
                  /\ can_place(grid, h.piece, h.left, h.top)

\* C15: the pieces dealt to the player, taken in the order they are dealt,
\* never include three consecutive single cells of value 5
C15_NoThreeSingleFives ==
    ev.streak < 3 /\ single5_run < 3

\* C16: every board cell is either empty in all three grids (0, 0, None) or
\* occupied in all three (1, a value in 1..5, a color)
C16_CellsAreConsistent ==
    game = "Game" =>
        \A c \in Cells :
            \/ /\ grid[c[2]][c[1]] = 0
               /\ grid_nums[c[2]][c[1]] = 0
               /\ grid_colors[c[2]][c[1]] = None
            \/ /\ grid[c[2]][c[1]] = 1
               /\ grid_nums[c[2]][c[1]] \in 1..5
               /\ grid_colors[c[2]][c[1]] \in 1..8

\* a generated piece has been written to the board and an update has reset
\* the thirteen cells of a finished clear
C16_Witness ==
    /\ game = "Game"
    /\ ev.kind = "update"
    /\ score = 195 /\ animations = << >>
    /\ \A x \in Idx : grid[0][x] = 0 /\ grid_colors[0][x] = None
    /\ \E c \in Cells : grid[c[2]][c[1]] = 1 /\ grid_colors[c[2]][c[1]] = 1
                          /\ grid_nums[c[2]][c[1]] = 5 /\ c[2] = 3

\* C17: a restart is issued in a running game (not paused, not over) and
\* leaves it running in the same mode with an empty board, score 0, nothing in
\* hand, three pieces that fit the empty board, the timer restarted and no
\* clear pending
C17_RestartStartsAfresh ==
    [][ev'.kind = "restart" =>
        /\ game = "Game" /\ ~menu_active /\ ~game_over /\ ~paused
        /\ game' = "Game" /\ ~menu_active' /\ ~game_over' /\ ~paused'
        /\ \A c \in Cells : /\ grid'[c[2]][c[1]] = 0
                            /\ grid_nums'[c[2]][c[1]] = 0
                            /\ grid_colors'[c[2]][c[1]] = None
        /\ score' = 0
        /\ selected' = NoSelection /\ ~dragging'
        /\ \A i \in 0..2 :
              /\ OccupiedEntries(pieces'[i]) # {}
              /\ \A rc \in OccupiedEntries(pieces'[i]) :
                    pieces'[i].shape[rc[1]][rc[2]] \in 1..5
              /\ HasLegalOrigin(grid', pieces'[i])
        /\ timed_mode' = timed_mode
        /\ start_time' = now /\ now' = now
        /\ animations' = << >>
      ]_vars

\* a restart issued while the clear of a completed row and column was still
\* pending (no time had passed since the clear raised best to 195)
C17_Witness ==
    /\ game = "Game"
    /\ ev.kind = "restart"
    /\ now = 0 /\ best = 195
    /\ animations = << >>
    /\ grid = EmptyGrid

\* C18: when the generator runs on a board whose near-complete lines are all
\* columns, the strategic branch can return a piece built for one of them
C18_StrategicServesColumns ==
    ev.kind = "place" =>
        LET cands == find_near_lines_and_needed(grid, grid_nums, 3)
        IN (cands # {} /\ \A c \in cands : c.kind = "col")
              => \E h \in StrategicBranch(grid, grid_nums).res :
                    /\ h.kind = "col"
                    /\ \E c \in cands : c.idx = h.idx

\* C19: every piece the strategic branch can return when the generator runs
\* carries on its aligned cells the values of the composition it was built
\* from, and these sum to needed_total or, only when needed_total has no
\* composition over that many cells, to a sum from needed_total - 5 to
\* needed_total - 1
C19_StrategicValuesAreTheComposition ==
    ev.kind = "place" =>
        \A h \in StrategicBranch(grid, grid_nums).res :
            /\ AlignedValues(h) = h.parts
            /\ \/ SumSeq(AlignedValues(h)) = h.needed_total
               \/ /\ compositions(h.needed_total, Cardinality(h.aligned), 1, 5) = << >>
                  /\ h.needed_total - 5 <= SumSeq(AlignedValues(h))
                  /\ SumSeq(AlignedValues(h)) <= h.needed_total - 1

\* C20: a piece the generator can return after all its exploratory passes
\* have failed is a domino (two occupied cells): one from the first fallback,
\* which has a legal origin, or else the unvalidated last resort
C20_FallbackIsADomino ==
    [][ev'.kind = "place" =>
        \A r \in generate_placeable_piece(grid', grid_nums', consecutive_single_5s,
                                          last_piece_time, now) :
            r.via \in {"fallback", "last_resort"} =>
                /\ Cardinality(OccupiedEntries(r.piece)) = 2
                /\ r.via = "fallback" => find_any_pos(grid', r.piece)
      ]_vars

\* C21: whenever no clear is pending, the score of the game is 15 times the
\* number of cells that clearing has reset to empty since the game was
\* started or restarted
C21_ScoreMatchesCellsReset ==
    (game = "Game" /\ animations = << >>) => score = 15 * cells_reset

\* C22: a cell that update() resets to empty lies, at that moment, in a row
\* or column that is full and sums to 25, or at least has not been written by
\* a placement made after the clear that resets it was recorded
C22_ResetOnlyInQualifyingLine ==
    [][ev'.kind = "update" =>
         \A c \in Cells :
             (grid[c[2]][c[1]] # 0 /\ grid'[c[2]][c[1]] = 0)
                 => \/ RowFullExact(grid, grid_nums, c[2])
                    \/ ColFullExact(grid, grid_nums, c[1])
                    \/ c \notin fresh_cells]_vars

\* the board once the cells of a clear-set have been reset
AfterClear(g, cells) ==
    [y \in Idx |-> [x \in Idx |-> IF <<x, y>> \in cells THEN 0 ELSE g[y][x]]]

\* C23: a placement leaves game_over set only if no held piece has a legal
\* origin on the board as it stands once the lines the placement completed
\* have been cleared
C23_GameOverJudgedAfterClearing ==
    (ev.kind = "place" /\ game_over)
        => \A i \in 0..2 : ~HasLegalOrigin(AfterClear(grid, ev.cleared), pieces[i])

====
